---- MODULE Spec2Model ----
(***************************************************************************)
(* Model of the Three.js model viewer: public/src/main.js (scene, format   *)
(* switching, camera resolution, centring, statistics panel, render loop)  *)
(* and public/src/Helpers/ModelHelper.js (asynchronous loader, statistics  *)
(* collector).                                                             *)
(*                                                                         *)
(* Numbers.  Lengths are fixed-point integers with 1024 steps per world    *)
(* unit (Fix(n)); the catalogue keeps every coordinate on a coarse grid so *)
(* that the halvings of Box3.getCenter are exact.  Values produced by      *)
(* toFixed(2) are integers counting hundredths.  Light intensities count   *)
(* tenths.  Time is in whole milliseconds.                                 *)
(*                                                                         *)
(* Objects.  An object of the scene graph is a pair <<l, n>>: node n of    *)
(* the graph parsed by load l, or, with l = 0, one of the objects main.js  *)
(* creates itself.  Assets carry translations only (no rotation, no        *)
(* scale), so a world position is the sum of the local positions up the    *)
(* parent chain.  OrbitControls is a library outside the repository: the   *)
(* model records which camera it is bound to, not its camera arithmetic.   *)
(***************************************************************************)
EXTENDS Integers, Sequences, FiniteSets, TLC

\* -------------------------------------------------------------------------
\* Bounds of the model
\* -------------------------------------------------------------------------
MaxLoads == 3
MaxTime == 1

\* -------------------------------------------------------------------------
\* Values
\* -------------------------------------------------------------------------
Formats == {"gltf", "glb"}

OtherFormat(f) == IF f = "gltf" THEN "glb" ELSE "gltf"

Fix(n) == n * 1024

Vec(x, y, z) == <<Fix(x), Fix(y), Fix(z)>>

VAdd(a, b) == <<a[1] + b[1], a[2] + b[2], a[3] + b[3]>>

VSub(a, b) == <<a[1] - b[1], a[2] - b[2], a[3] - b[3]>>

Min2(a, b) == IF a <= b THEN a ELSE b

Max2(a, b) == IF a >= b THEN a ELSE b

VMin(a, b) == <<Min2(a[1], b[1]), Min2(a[2], b[2]), Min2(a[3], b[3])>>

VMax(a, b) == <<Max2(a[1], b[1]), Max2(a[2], b[2]), Max2(a[3], b[3])>>

Abs(a) == IF a < 0 THEN 0 - a ELSE a

Origin == <<0, 0, 0>>

\* Number.prototype.toFixed(2) of the non-negative quotient n / d, in hundredths.
ToFixed2(n, d) == (200 * n + d) \div (2 * d)

\* Bytes totals a progress event may report (0: the transport exposes no total).
ProgressTotals == {0, 1536}

\* Errors the loader may report.
LoadErrors == {"NetworkError", "ParseError"}

\* Values the ambient intensity slider is moved to, in tenths.
AmbientInputs == {20}

\* -------------------------------------------------------------------------
\* Asset catalogue: what the file behind a format may parse to.  A graph is
\* the sequence of its nodes, node 1 being gltf.scene (GLTFLoader builds it
\* as a Group); parent = 0 marks the root.  Mesh nodes carry a geometry:
\* posCount (position attribute count), idxCount (index count, with
\* hasIndex) and the geometry's bounding box bmin..bmax in local space.
\* -------------------------------------------------------------------------
GroupNode(p, at) ==
    [type |-> "Group", parent |-> p, pos |-> at, fov |-> 0, posCount |-> 0,
     hasIndex |-> FALSE, idxCount |-> 0, bmin |-> Origin, bmax |-> Origin]

CameraNode(p, at, f) ==
    [type |-> "Camera", parent |-> p, pos |-> at, fov |-> f, posCount |-> 0,
     hasIndex |-> FALSE, idxCount |-> 0, bmin |-> Origin, bmax |-> Origin]

MeshNode(p, at, pc, hi, ic, lo, up) ==
    [type |-> "Mesh", parent |-> p, pos |-> at, fov |-> 0, posCount |-> pc,
     hasIndex |-> hi, idxCount |-> ic, bmin |-> lo, bmax |-> up]

\* One group holding two non-indexed meshes; bounding box centred at
\* (10,0,0) with size (2,2,2); 4/3 + 5/3 triangles.
FlatAsset ==
    << GroupNode(0, Origin),
       MeshNode(1, Origin, 4, FALSE, 0, Vec(9, -1, -1), Vec(11, 1, 1)),
       MeshNode(1, Origin, 5, FALSE, 0, Vec(9, -1, -1), Vec(10, 0, 0)) >>

\* A model that brings two cameras, declared around a mesh and a nested
\* group of two meshes (a multi-primitive mesh).
NestedAsset ==
    << GroupNode(0, Origin),
       CameraNode(1, Vec(0, 0, 4), 90),
       MeshNode(1, Vec(-4, 0, 0), 8, TRUE, 36, Vec(-1, -1, -1), Vec(1, 1, 1)),
       GroupNode(1, Vec(4, 2, 0)),
       MeshNode(4, Origin, 5, FALSE, 0, Vec(-1, -1, -1), Vec(1, 1, 1)),
       MeshNode(4, Origin, 4, TRUE, 4, Vec(-1, -1, -1), Vec(1, 1, 1)),
       CameraNode(1, Vec(0, 4, 0), 60) >>

\* A scene without any node below the root.
EmptyAsset == << GroupNode(0, Origin) >>

AssetNames == {"flat", "nested", "empty"}

Asset(a) ==
    CASE a = "flat" -> FlatAsset
      [] a = "nested" -> NestedAsset
      [] OTHER -> EmptyAsset

\* -------------------------------------------------------------------------
\* State
\* -------------------------------------------------------------------------
VARIABLES
    now,            \* performance.now()
    files,          \* what scene.gltf / scene-2.glb parse to (static files)
    loads,          \* the loads requested so far, in request order
    helperFormat,   \* ModelHelper.js currentFormat
    loadStartTime,  \* ModelHelper.js loadStartTime
    modelStats,     \* ModelHelper.js modelStats
    currentFormat,  \* main.js currentFormat
    loadedModel,    \* main.js loadedModel: a root object, or Null
    scene,          \* scene.children, in order
    position,       \* local position of every object created so far
    cameraList,     \* main.js cameraList
    camera,         \* main.js camera: an object, or Null
    controls,       \* main.js controls: [object |-> camera], or NoControls
    lights,         \* ambientLight.intensity, directionalLight.intensity (tenths)
    rafPending,     \* callbacks registered with requestAnimationFrame
    lastRender,     \* what renderer.render drew last
    panel,          \* the statistics panel of the page
    console         \* what console.error received

vars == <<now, files, loads, helperFormat, loadStartTime, modelStats,
          currentFormat, loadedModel, scene, position, cameraList, camera,
          controls, lights, rafPending, lastRender, panel, console>>

Null == <<0, 0>>

AmbientLight == <<0, 1>>

DirectionalLight == <<0, 2>>

DefaultCamera == <<0, 3>>

NoControls == [object |-> Null]

NoRender == [scene |-> <<>>, camera |-> Null, uncentred |-> {}]

\* the history of a load that is no longer in flight
NoSnapshot ==
    [stats |-> <<>>, scene |-> <<>>, camera |-> Null, controls |-> Null,
     previous |-> Null, pending |-> {}, resolved |-> 0, start |-> 0]

DefaultLights == [ambient |-> 5, directional |-> 10]

DefaultFov == 75

ZeroStats == [loadTime |-> 0, fileSize |-> 0, vertices |-> 0, triangles |-> 0, meshes |-> 0]

LoadIds == 1..Len(loads)

Pending == {i \in LoadIds : loads[i].status = "pending"}

Root(i) == <<i, 1>>

\* -------------------------------------------------------------------------
\* The scene graph
\* -------------------------------------------------------------------------
GraphOf(l) == Asset(files[loads[l].format])

NodeOf(o) == GraphOf(o[1])[o[2]]

TypeOf(o) ==
    IF o[1] = 0
    THEN (IF o = DefaultCamera THEN "Camera" ELSE "Light")
    ELSE NodeOf(o).type

FovOf(o) == IF o[1] = 0 THEN DefaultFov ELSE NodeOf(o).fov

\* object.children of an object below the scene
ChildrenOf(o) ==
    IF o[1] = 0
    THEN <<>>
    ELSE LET g == GraphOf(o[1])
             idx == SelectSeq([k \in 1..Len(g) |-> k], LAMBDA k : g[k].parent = o[2])
         IN  [k \in 1..Len(idx) |-> <<o[1], idx[k]>>]

RECURSIVE TraverseAll(_)
\* Object3D.traverse over a list of siblings: each object, then its children
TraverseAll(objs) ==
    IF objs = <<>>
    THEN <<>>
    ELSE <<Head(objs)>> \o TraverseAll(ChildrenOf(Head(objs))) \o TraverseAll(Tail(objs))

\* the objects scene.traverse visits after the scene itself
TraverseScene(sc) == TraverseAll(sc)

\* the objects gltf.scene.traverse visits
TraverseModel(i) == TraverseAll(<<Root(i)>>)

RECURSIVE WorldPosition(_, _)
\* translation part of object.matrixWorld
WorldPosition(o, pos) ==
    IF o[1] = 0 \/ NodeOf(o).parent = 0
    THEN pos[o]
    ELSE VAdd(pos[o], WorldPosition(<<o[1], NodeOf(o).parent>>, pos))

\* -------------------------------------------------------------------------
\* ModelHelper.js: the statistics collector
\* -------------------------------------------------------------------------
\* Faulty variant: the floor applied to every mesh instead of once to the total.
TriangleThirds_FlooredPerMesh(n) ==
    3 * ((IF n.hasIndex THEN n.idxCount ELSE n.posCount) \div 3)

\* what one mesh adds to `triangles`, counted in thirds of a triangle
\* (index.count / 3, else position.count / 3; every catalogue geometry has
\* a position attribute)
TriangleThirds(n) == IF n.hasIndex THEN n.idxCount ELSE n.posCount

RECURSIVE CountGeometry(_, _)
\* the callback of gltf.scene.traverse, folded over the visited objects
CountGeometry(objs, acc) ==
    IF objs = <<>>
    THEN acc
    ELSE LET n == NodeOf(Head(objs))
         IN  CountGeometry(Tail(objs),
                 IF n.type = "Mesh"
                 THEN [meshes |-> acc.meshes + 1,
                       vertices |-> acc.vertices + n.posCount,
                       thirds |-> acc.thirds + TriangleThirds(n)]
                 ELSE acc)

\* the record stored at load completion; it has no fileSize field
CollectStats(i, loadTime) ==
    LET c == CountGeometry(TraverseModel(i), [meshes |-> 0, vertices |-> 0, thirds |-> 0])
    IN  [loadTime |-> ToFixed2(loadTime, 1),
         vertices |-> c.vertices,
         triangles |-> c.thirds \div 3,
         meshes |-> c.meshes]

\* record.fileSize = v, adding the field when the record lacks it
SetFileSize(rec, v) ==
    [k \in DOMAIN rec \cup {"fileSize"} |-> IF k = "fileSize" THEN v ELSE rec[k]]

\* Faulty variant: the progress callback keyed by the module-level currentFormat.
ProgressKey_ModuleFormat(i) == helperFormat

\* the key of modelStats the progress callback writes: its closure's format
ProgressKey(i) == loads[i].format

\* the key of modelStats the completion callback writes
CompletionKey(i) == loads[i].format

\* the start timestamp the completion callback subtracts
StartTimeOf(i) == loadStartTime

\* -------------------------------------------------------------------------
\* main.js: camera resolution
\* -------------------------------------------------------------------------
CamerasIn(objs) == SelectSeq(objs, LAMBDA o : TypeOf(o) = "Camera")

\* cameraList after the traversal of retrieveListOfCameras
PushCameras(cl, sc) == cl \o CamerasIn(TraverseScene(sc))

RetrieveListOfCameras(sc, pos, cl) ==
    LET cl1 == PushCameras(cl, sc)
    IN  IF Len(cl1) = 0
        THEN [cameraList |-> cl1,
              camera |-> DefaultCamera,
              scene |-> Append(sc, DefaultCamera),
              position |-> (DefaultCamera :> Vec(0, 0, 5)) @@ pos]
        ELSE [cameraList |-> cl1,
              camera |-> cl1[1],
              scene |-> sc,
              position |-> pos]

\* -------------------------------------------------------------------------
\* main.js: centerModel
\* -------------------------------------------------------------------------
EmptyBox == [empty |-> TRUE, min |-> Origin, max |-> Origin]

BoxUnion(b, lo, up) ==
    IF b.empty
    THEN [empty |-> FALSE, min |-> lo, max |-> up]
    ELSE [empty |-> FALSE, min |-> VMin(b.min, lo), max |-> VMax(b.max, up)]

RECURSIVE ExpandByObjects(_, _, _)
\* Box3.expandByObject over a list of siblings: the object's own geometry,
\* then its children
ExpandByObjects(b, objs, pos) ==
    IF objs = <<>>
    THEN b
    ELSE LET o == Head(objs)
             w == WorldPosition(o, pos)
             b1 == IF TypeOf(o) = "Mesh"
                   THEN BoxUnion(b, VAdd(w, NodeOf(o).bmin), VAdd(w, NodeOf(o).bmax))
                   ELSE b
         IN  ExpandByObjects(ExpandByObjects(b1, ChildrenOf(o), pos), Tail(objs), pos)

RECURSIVE ExpandByMeshes(_, _, _)
\* the first traversal of centerModel
ExpandByMeshes(b, objs, pos) ==
    IF objs = <<>>
    THEN b
    ELSE ExpandByMeshes(IF TypeOf(Head(objs)) = "Mesh"
                        THEN ExpandByObjects(b, <<Head(objs)>>, pos)
                        ELSE b,
                        Tail(objs), pos)

MeshBox(sc, pos) == ExpandByMeshes(EmptyBox, TraverseScene(sc), pos)

\* Box3.getCenter: (0,0,0) for an empty box
BoxCenter(b) ==
    IF b.empty
    THEN Origin
    ELSE <<(b.min[1] + b.max[1]) \div 2, (b.min[2] + b.max[2]) \div 2,
           (b.min[3] + b.max[3]) \div 2>>

\* Box3.getSize: (0,0,0) for an empty box
BoxSize(b) == IF b.empty THEN Origin ELSE VSub(b.max, b.min)

IsModelGroup(o) == TypeOf(o) = "Group" /\ Len(ChildrenOf(o)) > 0

RECURSIVE LastModelGroup(_, _)
\* the second traversal of centerModel: every qualifying object overwrites
\* modelGroup
LastModelGroup(objs, found) ==
    IF objs = <<>>
    THEN found
    ELSE LastModelGroup(Tail(objs), IF IsModelGroup(Head(objs)) THEN Head(objs) ELSE found)

FindModelGroup(sc) == LastModelGroup(TraverseScene(sc), Null)

\* tan(fov / 2) in 1024ths, for the fields of view that occur
TanHalfFov(fov) ==
    CASE fov = 60 -> 591
      [] fov = 75 -> 786
      [] OTHER -> 1024

\* cameraZ = |maxDim / 2 / tan(fov / 2)| * 2
CameraDistance(maxDim, fov) == Abs(((maxDim \div 2) * 1024) \div TanHalfFov(fov)) * 2

\* camera.position.set(cameraZ * 0.7, cameraZ * 0.5, cameraZ * 0.7)
CameraPlacement(cameraZ) == <<(cameraZ * 7) \div 10, (cameraZ * 5) \div 10, (cameraZ * 7) \div 10>>

CenterModel(sc, pos, cam) ==
    LET box == MeshBox(sc, pos)
        center == BoxCenter(box)
        size == BoxSize(box)
        modelGroup == FindModelGroup(sc)
        pos1 == IF modelGroup # Null
                THEN [pos EXCEPT ![modelGroup] = VSub(pos[modelGroup], center)]
                ELSE pos
        maxDim == Max2(size[1], Max2(size[2], size[3]))
        cameraZ == CameraDistance(maxDim, FovOf(cam))
    IN  [position |-> [pos1 EXCEPT ![cam] = CameraPlacement(cameraZ)],
         center |-> center,
         size |-> size,
         modelGroup |-> modelGroup,
         cameraZ |-> cameraZ]

\* -------------------------------------------------------------------------
\* main.js: animate
\* -------------------------------------------------------------------------
\* Faulty variant: animate registering a frame callback only when none is
\* pending yet.
RequestAnimationFrame_Once(n) == IF n = 0 THEN 1 ELSE n

\* requestAnimationFrame(animate) with n callbacks pending: one more
RequestAnimationFrame(n) == n + 1

\* -------------------------------------------------------------------------
\* main.js: loadModel, the statistics panel
\* -------------------------------------------------------------------------
\* Faulty variant: loadModel without the removal of the previous model.
RemovePrevious_Keep(sc, lm) == sc

\* Faulty variant: loadModel clearing every imported model out of the scene.
RemovePrevious_AllModels(sc, lm) == SelectSeq(sc, LAMBDA o : o[1] = 0)

\* scene.remove(loadedModel), guarded by `if (loadedModel)`
RemovePrevious(sc, lm) == IF lm # Null THEN SelectSeq(sc, LAMBDA o : o # lm) ELSE sc

\* updateStats: a format's row is rewritten when its loadTime is positive
UpdateStats(stats, pnl) ==
    [f \in Formats |-> IF stats[f].loadTime > 0 THEN stats[f] ELSE pnl[f]]

\* what the catch handler hands to console.error
Surfaced(e) == e

\* the objects GLTFLoader creates for load i, at their authored positions
NewObjects(i) == [o \in {<<i, k>> : k \in 1..Len(GraphOf(i))} |-> NodeOf(o).pos]

Resolved == {i \in LoadIds : loads[i].status = "resolved"}

\* a load as requested by loadModel(f).  total and atRequest are history
\* kept while the load is in flight: the last positive total a progress
\* event reported, and the state right after the request (the format's
\* statistics record, scene.children, camera, the camera of controls, the
\* model the request removed, the loads then in flight, the number of
\* loads then resolved, the timestamp LoadGLTFByPath took for this load).
NewLoad(f, sc, inFlight) ==
    [format |-> f, status |-> "pending", total |-> 0,
     atRequest |-> [stats |-> modelStats[f], scene |-> sc, camera |-> camera,
                    controls |-> controls.object, previous |-> loadedModel,
                    pending |-> inFlight, resolved |-> Cardinality(Resolved),
                    start |-> now]]

\* load l once settled with status st
SettledLoad(l, st) ==
    [format |-> l.format, status |-> st, total |-> 0, atRequest |-> NoSnapshot]

\* loadModel(f) with LoadGLTFByPath up to loader.load
LoadModel(f) ==
    /\ currentFormat' = f
    /\ scene' = RemovePrevious(scene, loadedModel)
    /\ loadedModel' = Null
    /\ helperFormat' = f
    /\ loadStartTime' = now
    /\ loads' = Append(loads, NewLoad(f, scene', Pending))
    /\ UNCHANGED <<now, files, modelStats, position, cameraList, camera, controls,
                   lights, rafPending, lastRender, panel, console>>

\* -------------------------------------------------------------------------
\* Initial state: main.js has run to its end, loadModel('gltf') included
\* -------------------------------------------------------------------------
Init ==
    /\ now = 0
    /\ files \in [Formats -> AssetNames]
    /\ modelStats = [f \in Formats |-> ZeroStats]
    /\ scene = <<AmbientLight, DirectionalLight>>
    /\ camera = Null
    /\ controls = NoControls
    /\ loads = << [format |-> "gltf", status |-> "pending", total |-> 0,
                   atRequest |-> [stats |-> ZeroStats, scene |-> scene, camera |-> Null,
                                  controls |-> Null, previous |-> Null, pending |-> {},
                                  resolved |-> 0, start |-> 0]] >>
    /\ helperFormat = "gltf"
    /\ loadStartTime = 0
    /\ currentFormat = "gltf"
    /\ loadedModel = Null
    /\ position = [o \in {} |-> Origin]
    /\ cameraList = <<>>
    /\ lights = DefaultLights
    /\ rafPending = 0
    /\ lastRender = NoRender
    /\ panel = [f \in Formats |-> ZeroStats]
    /\ console = <<>>

\* -------------------------------------------------------------------------
\* Actions
\* -------------------------------------------------------------------------
\* performance.now() advances
Tick ==
    /\ now < MaxTime
    /\ now' = now + 1
    /\ UNCHANGED <<files, loads, helperFormat, loadStartTime, modelStats, currentFormat,
                   loadedModel, scene, position, cameraList, camera, controls, lights,
                   rafPending, lastRender, panel, console>>

\* click on the gltf or the glb button
ClickFormat(f) ==
    /\ Len(loads) < MaxLoads
    /\ currentFormat # f
    /\ LoadModel(f)

\* the loader's progress callback of load i
Progress(i, total) ==
    /\ i \in Pending
    /\ IF total > 0
       THEN /\ loads' = [loads EXCEPT ![i].total = total]
            /\ modelStats' = [modelStats EXCEPT ![ProgressKey(i)] =
                                 SetFileSize(@, ToFixed2(total, 1024))]
       ELSE UNCHANGED <<modelStats, loads>>
    /\ UNCHANGED <<now, files, helperFormat, loadStartTime, currentFormat, loadedModel,
                   scene, position, cameraList, camera, controls, lights, rafPending,
                   lastRender, panel, console>>

\* the loader's completion callback of load i, then the .then handler of loadModel
Succeed(i) ==
    /\ i \in Pending
    /\ loads' = [loads EXCEPT ![i] = SettledLoad(@, "resolved")]
    /\ LET loadTime == now - StartTimeOf(i)
           stats1 == [modelStats EXCEPT ![CompletionKey(i)] = CollectStats(i, loadTime)]
           sc1 == Append(scene, Root(i))
           pos1 == NewObjects(i) @@ position
           r == RetrieveListOfCameras(sc1, pos1, cameraList)
           c == CenterModel(r.scene, r.position, r.camera)
       IN  /\ modelStats' = stats1
           /\ loadedModel' = Root(i)
           /\ cameraList' = r.cameraList
           /\ camera' = r.camera
           /\ scene' = r.scene
           \* animate(): one more frame callback, and a frame drawn at once
           /\ rafPending' = RequestAnimationFrame(rafPending)
           /\ lastRender' = [scene |-> r.scene, camera |-> r.camera, uncentred |-> {Root(i)}]
           /\ position' = c.position
           /\ controls' = IF controls = NoControls THEN [object |-> r.camera] ELSE controls
           /\ panel' = UpdateStats(stats1, panel)
    /\ UNCHANGED <<now, files, helperFormat, loadStartTime, currentFormat, lights, console>>

\* the loader's error callback of load i, then the .catch handler of loadModel
Fail(i, e) ==
    /\ i \in Pending
    /\ loads' = [loads EXCEPT ![i] = SettledLoad(@, "rejected")]
    /\ console' = Append(console, Surfaced(e))
    /\ UNCHANGED <<now, files, helperFormat, loadStartTime, modelStats, currentFormat,
                   loadedModel, scene, position, cameraList, camera, controls, lights,
                   rafPending, lastRender, panel>>

\* a display refresh: every pending callback re-registers itself and renders
Frame ==
    /\ rafPending > 0
    /\ lastRender' = [scene |-> scene, camera |-> camera, uncentred |-> {}]
    /\ UNCHANGED <<now, files, loads, helperFormat, loadStartTime, modelStats,
                   currentFormat, loadedModel, scene, position, cameraList, camera,
                   controls, lights, rafPending, panel, console>>

\* input on the ambient intensity slider
AmbientIntensityInput(v) ==
    /\ lights' = [lights EXCEPT !.ambient = v]
    /\ UNCHANGED <<now, files, loads, helperFormat, loadStartTime, modelStats,
                   currentFormat, loadedModel, scene, position, cameraList, camera,
                   controls, rafPending, lastRender, panel, console>>

\* click on the reset button
ResetLighting ==
    /\ lights' = DefaultLights
    /\ UNCHANGED <<now, files, loads, helperFormat, loadStartTime, modelStats,
                   currentFormat, loadedModel, scene, position, cameraList, camera,
                   controls, rafPending, lastRender, panel, console>>

\* a click made only once every earlier load has settled
ClickFormatWhenIdle(f) ==
    /\ Pending = {}
    /\ ClickFormat(f)

Next ==
    \/ Tick
    \/ \E f \in Formats : ClickFormat(f)
    \/ \E i \in LoadIds, total \in ProgressTotals : Progress(i, total)
    \/ \E i \in LoadIds : Succeed(i)
    \/ \E i \in LoadIds, e \in LoadErrors : Fail(i, e)
    \/ Frame
    \/ \E v \in AmbientInputs : AmbientIntensityInput(v)
    \/ ResetLighting

Spec == Init /\ [][Next]_vars

\* the sessions in which no load is requested while another is in flight
NextSequential ==
    \/ Tick
    \/ \E f \in Formats : ClickFormatWhenIdle(f)
    \/ \E i \in LoadIds, total \in ProgressTotals : Progress(i, total)
    \/ \E i \in LoadIds : Succeed(i)
    \/ \E i \in LoadIds, e \in LoadErrors : Fail(i, e)
    \/ Frame
    \/ \E v \in AmbientInputs : AmbientIntensityInput(v)
    \/ ResetLighting

SpecSequential == Init /\ [][NextSequential]_vars

\* -------------------------------------------------------------------------
\* Properties
\* -------------------------------------------------------------------------
Range(sq) == {sq[k] : k \in 1..Len(sq)}

\* positions of scene.children that hold an imported model root
ModelSlots(sc) == {k \in 1..Len(sc) : sc[k][1] > 0}

FirstCamera(sc) ==
    LET cams == CamerasIn(TraverseScene(sc))
    IN  IF cams = <<>> THEN Null ELSE cams[1]

RECURSIVE SumOver(_, _)
SumOver(S, f) ==
    IF S = {}
    THEN 0
    ELSE LET x == CHOOSE y \in S : TRUE
         IN  f[x] + SumOver(S \ {x}, f)

\* C1: when loads are requested only after the previous one has settled,
\* once the last load has succeeded the scene holds exactly one imported
\* model root, and it is the one loadedModel refers to.
C1_OneModelAfterSequentialLoads ==
    loads[Len(loads)].status = "resolved" =>
        /\ Cardinality(ModelSlots(scene)) = 1
        /\ \A k \in ModelSlots(scene) : scene[k] = loadedModel
        /\ loadedModel = Root(Len(loads))

\* a third load has succeeded after a failed and a successful one
C1_Witness ==
    /\ Len(loads) = 3
    /\ loads[1].status = "resolved"
    /\ loads[2].status = "rejected"
    /\ loads[3].status = "resolved"
    /\ Pending = {}

\* C2: after every successful load the active camera is the first Camera in
\* traversal order of the scene graph as it then is; a camera of a model
\* already removed from the scene is never selected.
C2_FirstCameraOfCurrentScene ==
    [][\A i \in LoadIds :
          Succeed(i) =>
              /\ camera' = FirstCamera(scene')
              /\ camera' \in Range(TraverseScene(scene'))]_vars

\* C3: after a successful load during which a progress event reported a
\* total > 0, the format's stored record, and the panel row written from it,
\* has fileSize = total / 1024 to two decimals; with no total reported,
\* fileSize is unset or zero.
C3_FileSizeAfterSuccess ==
    [][\A i \in LoadIds :
          Succeed(i) =>
              LET rec == modelStats'[loads[i].format]
              IN  IF loads[i].total > 0
                  THEN /\ "fileSize" \in DOMAIN rec
                       /\ rec.fileSize = ToFixed2(loads[i].total, 1024)
                       /\ rec.loadTime > 0 => panel'[loads[i].format] = rec
                  ELSE \/ "fileSize" \notin DOMAIN rec
                       \/ rec.fileSize = 0]_vars

\* C4: when a load fails, the format's stored record is what it was when
\* the load was requested, even if progress events came first; the error
\* reaches the caller unchanged and no load is started.
C4_FailureLeavesStatsAsRequested ==
    [][\A i \in LoadIds, e \in LoadErrors :
          Fail(i, e) =>
              /\ modelStats'[loads[i].format] = loads[i].atRequest.stats
              /\ console' = Append(console, e)
              /\ Len(loads') = Len(loads)
              /\ \A k \in 1..Len(loads') : loads'[k].status = "pending" => k \in Pending]_vars

\* C5: every step of a load of one format (request, progress, completion,
\* failure), in any interleaving with other loads, leaves the other
\* format's statistics record unchanged.
C5_OtherFormatRecordUntouched ==
    [][/\ \A f \in Formats :
             ClickFormat(f) => modelStats'[OtherFormat(f)] = modelStats[OtherFormat(f)]
       /\ \A i \in LoadIds :
             (\/ \E total \in ProgressTotals : Progress(i, total)
              \/ Succeed(i)
              \/ \E e \in LoadErrors : Fail(i, e))
             => modelStats'[OtherFormat(loads[i].format)]
                    = modelStats[OtherFormat(loads[i].format)]]_vars

\* a progress event of one load has arrived after a load of the other
\* format, requested later, completed
C5_Witness ==
    \E i \in Pending, j \in Resolved :
        /\ i < j
        /\ loads[i].format # loads[j].format
        /\ loads[i].total > 0
        /\ "fileSize" \in DOMAIN modelStats[loads[i].format]
        /\ modelStats[loads[i].format].fileSize = 150
        /\ "fileSize" \notin DOMAIN modelStats[loads[j].format]
        /\ modelStats[loads[j].format].meshes > 0

\* C6: the record stored at load completion has meshes = number of Mesh
\* nodes, vertices = sum of the position counts, triangles = floor of the
\* sum over meshes of indexCount / 3 (indexed) or positionCount / 3 (not
\* indexed), floored once; no mesh gives 0, 0, 0.
C6_GeometryCounts ==
    [][\A i \in LoadIds :
          Succeed(i) =>
              LET g == GraphOf(i)
                  M == {k \in 1..Len(g) : g[k].type = "Mesh"}
                  pc == [k \in M |-> g[k].posCount]
                  tc == [k \in M |-> IF g[k].hasIndex THEN g[k].idxCount ELSE g[k].posCount]
                  rec == modelStats'[loads[i].format]
              IN  /\ rec.meshes = Cardinality(M)
                  /\ rec.vertices = SumOver(M, pc)
                  /\ rec.triangles = SumOver(M, tc) \div 3
                  /\ M = {} => rec.meshes = 0 /\ rec.vertices = 0 /\ rec.triangles = 0]_vars

\* both formats loaded: three meshes with 36/3 + 5/3 + 4/3 triangles, and
\* a graph without meshes
C6_Witness ==
    /\ files["gltf"] = "nested"
    /\ files["glb"] = "empty"
    /\ {1, 2} \subseteq Resolved
    /\ modelStats["gltf"].meshes = 3
    /\ modelStats["gltf"].vertices = 17
    /\ modelStats["gltf"].triangles = 15
    /\ modelStats["glb"].meshes = 0
    /\ modelStats["glb"].triangles = 0
    /\ "fileSize" \notin DOMAIN modelStats["glb"]

\* C7: after centerModel has run on a loaded model, flat or with nested
\* groups, the model has been translated by minus the bounding-box centre
\* computed before centring, and the bounding box of all meshes in the
\* scene is centred at the world origin.
C7_ModelCentredAtOrigin ==
    [][\A i \in LoadIds :
          Succeed(i) =>
              LET pos1 == NewObjects(i) @@ position
                  before == BoxCenter(MeshBox(Append(scene, Root(i)), pos1))
              IN  /\ position'[Root(i)] = VSub(pos1[Root(i)], before)
                  /\ BoxCenter(MeshBox(scene', position')) = Origin]_vars

\* C8: once centerModel has placed it, the camera is never at its look-at
\* target, the world origin, not even for a model without meshes.
C8_CameraOffTarget ==
    camera # Null => WorldPosition(camera, position) # Origin

Overlapped(i, j) == i > j \/ i \in loads[j].atRequest.pending

\* a resolved model that is in the scene and is not loadedModel stays in
\* the scene
OrphanStays ==
    \A i \in Resolved :
        (Root(i) \in Range(scene) /\ loadedModel # Root(i)) => Root(i) \in Range(scene')

\* C10 as stated: when two loads overlap in flight and both succeed, both
\* roots are in the scene, loadedModel refers to the one resolved last, and
\* the one resolved first stays in the scene whatever loadModel is called
\* later.
C10_FirstResolvedIsOrphaned ==
    [][/\ \A j \in LoadIds :
             Succeed(j) =>
                 \A i \in Resolved :
                     Overlapped(i, j) =>
                         /\ Root(i) \in Range(scene')
                         /\ Root(j) \in Range(scene')
                         /\ loadedModel' = Root(j)
       /\ OrphanStays]_vars

\* C10 amended: when two loads overlap in flight, both succeed and no load
\* is requested between the two resolutions (loadedModel still refers to
\* the first-resolved model when the second resolves), both roots are in
\* the scene, loadedModel refers to the one resolved last, and the one
\* resolved first stays in the scene whatever loadModel is called later.
C10_OrphanedUnlessRequestBetween ==
    [][/\ \A j \in LoadIds :
             Succeed(j) =>
                 \A i \in Resolved :
                     (Overlapped(i, j) /\ loadedModel = Root(i)) =>
                         /\ Root(i) \in Range(scene')
                         /\ Root(j) \in Range(scene')
                         /\ loadedModel' = Root(j)
       /\ OrphanStays]_vars

\* two overlapping loads have resolved, a third load has since been
\* requested and removed the later model, the earlier one is still there
C10_Witness ==
    \E i \in Resolved, j \in Resolved, k \in Pending :
        /\ i # j
        /\ Root(i) \in Range(scene)
        /\ loads[k].atRequest.previous = Root(j)
        /\ ModelSlots(loads[k].atRequest.scene) # {}
        /\ loadedModel = Null

\* C11: for every load that completes successfully, overlapping loads
\* included, the recorded loadTime is the completion timestamp minus the
\* start timestamp of that same load, to two decimals.
C11_LoadTimeFromOwnStart ==
    [][\A i \in LoadIds :
          Succeed(i) =>
              modelStats'[loads[i].format].loadTime
                  = ToFixed2(now - loads[i].atRequest.start, 1)]_vars

\* the first object of a traversal that is a group with at least one child
FirstModelGroup(objs) ==
    LET groups == SelectSeq(objs, IsModelGroup)
    IN  IF groups = <<>> THEN Null ELSE groups[1]

\* the objects other than the camera that centerModel has moved during the
\* completion of load i
MovedBy(i) ==
    LET before == NewObjects(i) @@ position
    IN  {o \in DOMAIN before : o # camera' /\ position'[o] # before[o]}

\* C12: the group centerModel repositions is the top-level group of the
\* imported model, the first group with at least one child in traversal
\* order, also when the model holds nested non-empty groups; when there is
\* no such group, no node is moved.
C12_TopLevelGroupIsMoved ==
    [][\A i \in LoadIds :
          Succeed(i) =>
              LET top == FirstModelGroup(TraverseScene(scene'))
              IN  /\ MovedBy(i) \subseteq {top}
                  /\ top = Null => MovedBy(i) = {}]_vars

\* C13: centerModel is idempotent: run a second time on the scene it has
\* just centred, it leaves the position of the model group and of the
\* camera exactly as the first run left them, for every model graph.
C13_CenterModelIdempotent ==
    [][\A i \in LoadIds :
          Succeed(i) =>
              LET again == CenterModel(scene', position', camera')
              IN  /\ again.position[camera'] = position'[camera']
                  /\ again.modelGroup # Null =>
                         again.position[again.modelGroup] = position'[again.modelGroup]
                  /\ again.position = position']_vars

\* C14: on every successful load the statistics are collected, then
\* centerModel centres the model and places the camera, then the orbit
\* controls are established, and only then does rendering begin: no frame
\* is drawn of a newly loaded model before centerModel has run on it.
C14_NoFrameBeforeCentring ==
    [][\A i \in LoadIds :
          Succeed(i) =>
              /\ modelStats'[loads[i].format].meshes
                     = Cardinality({k \in 1..Len(GraphOf(i)) : GraphOf(i)[k].type = "Mesh"})
              /\ controls' # NoControls
              /\ Root(i) \notin lastRender'.uncentred]_vars

\* C15: the number of pending per-frame render callbacks equals the number
\* of loads that have succeeded so far in the session; it is 0 until the
\* first load succeeds, and every successful load adds one.
C15_OneRenderLoopPerSuccess ==
    /\ rafPending = Cardinality(Resolved)
    /\ Resolved = {} => rafPending = 0

\* two loads have succeeded and one has failed, and frames have been drawn
\* since: two render loops are running
C15_Witness ==
    /\ Cardinality(Resolved) = 2
    /\ \E i \in LoadIds : loads[i].status = "rejected"
    /\ rafPending = 2
    /\ lastRender # NoRender
    /\ lastRender.uncentred = {}

====
